---- MODULE Spec2Model ----
(***************************************************************************)
(* Field-level cryptography of the user-registration backend:              *)
(*   - encryptData / decryptData (AES-256-GCM, IV:TAG:CIPHERTEXT in hex)   *)
(*   - hashPassword / comparePassword (bcrypt)                             *)
(*   - the phone getter/setter of userSchema and the repository, signup    *)
(*     and login code paths that materialise a user.                       *)
(*                                                                         *)
(* A JavaScript string is a sequence of UTF-16 code units (integers), a    *)
(* Buffer is a sequence of bytes 0..255.  The value `undefined` is the     *)
(* one-element sequence Undefined, which no string of the model equals.    *)
(***************************************************************************)
EXTENDS Integers, Sequences, FiniteSets, TLC

VARIABLES
    data,       \* cipher harness: the plaintext handed to encryptData
    encoded,    \* cipher harness: what encryptData returned
    input,      \* cipher harness: the string handed to decryptData
    tamper,     \* cipher harness: how input was derived from encoded
    result,     \* cipher harness: what decryptData did with input
    store,      \* the users collection: sequence of stored documents
    ret,        \* what the last repository call returned to its caller
    resp,       \* what the last request handed to the response layer
    cipherLog,  \* the cipher functions the last operation invoked
    plainOf,    \* history: the phone value the caller last wrote, per _id
    hashing,    \* hash harness: the cost configured, the password, what hashPassword did
    comparing,  \* hash harness: the password and hash handed to comparePassword, its result
    process,    \* start-up harness: the key imported, whether the server listens, the last cipher call
    requests,   \* concurrent signups: each request's position in signup and its response
    session     \* history: the password each email signed up with, the last login attempted

cipherVars == <<data, encoded, input, tamper, result>>
appVars == <<store, ret, resp, cipherLog, plainOf>>
hashVars == <<hashing, comparing>>
auxVars == <<hashing, comparing, process, requests, session>>
vars == <<data, encoded, input, tamper, result, store, ret, resp, cipherLog, plainOf,
          hashing, comparing, process, requests, session>>

-----------------------------------------------------------------------------
(* Bounds of the model *)

MaxLen == 2
NumIVs == 1
NumSalts == 1

-----------------------------------------------------------------------------
(* JavaScript values *)

Undefined == << -1 >>

\* ':' , the separator of template literal and split
Colon == 58

\* code units the model draws plaintext from: '+', U+00E9, and the two
\* halves of the surrogate pair U+D83D U+DE00 (U+1F600)
CodeUnits == {43, 233, 55357, 56832}

IsHighSurrogate(u) == u >= 55296 /\ u <= 56319
IsLowSurrogate(u) == u >= 56320 /\ u <= 57343

RECURSIVE WellFormed(_)
WellFormed(s) ==
    IF s = <<>> THEN TRUE
    ELSE IF IsHighSurrogate(s[1])
         THEN Len(s) >= 2 /\ IsLowSurrogate(s[2]) /\ WellFormed(SubSeq(s, 3, Len(s)))
         ELSE ~IsLowSurrogate(s[1]) /\ WellFormed(Tail(s))

RECURSIVE SeqsUpTo(_, _)
SeqsUpTo(S, n) ==
    IF n = 0 THEN {<<>>}
    ELSE LET shorter == SeqsUpTo(S, n - 1)
         IN  shorter \cup {Append(s, c) : s \in shorter, c \in S}

-----------------------------------------------------------------------------
(* Bitwise xor on bytes *)

RECURSIVE Xor(_, _)
Xor(a, b) ==
    IF a = 0 /\ b = 0 THEN 0
    ELSE (((a % 2) + (b % 2)) % 2) + 2 * Xor(a \div 2, b \div 2)

-----------------------------------------------------------------------------
(* Buffer <-> string conversions of Node *)

\* buf.toString('hex'): two lower-case hex digits per byte
HexDigit(n) == IF n < 10 THEN 48 + n ELSE 87 + n

HexEncode(bytes) ==
    [i \in 1..(2 * Len(bytes)) |->
        IF i % 2 = 1 THEN HexDigit(bytes[(i + 1) \div 2] \div 16)
        ELSE HexDigit(bytes[i \div 2] % 16)]

\* value of a hex digit, -1 for any other code unit; both cases are accepted
HexVal(c) ==
    IF c >= 48 /\ c <= 57 THEN c - 48
    ELSE IF c >= 97 /\ c <= 102 THEN c - 87
    ELSE IF c >= 65 /\ c <= 70 THEN c - 55
    ELSE -1

\* Buffer.from(s, 'hex'): decodes pairs of digits and stops at the first pair
\* that is not hex; a trailing single digit is dropped
HexDecode(s) ==
    LET pairs == Len(s) \div 2
        bad == {i \in 1..pairs : HexVal(s[2 * i - 1]) < 0 \/ HexVal(s[2 * i]) < 0}
        n == IF bad = {} THEN pairs ELSE (CHOOSE i \in bad : \A j \in bad : i <= j) - 1
    IN  [i \in 1..n |-> 16 * HexVal(s[2 * i - 1]) + HexVal(s[2 * i])]

\* the UTF-8 bytes of a string: a surrogate pair is one 4-byte sequence, a
\* lone surrogate is written as U+FFFD (EF BF BD)
Utf8OfCodePoint(cp) ==
    IF cp < 128 THEN <<cp>>
    ELSE IF cp < 2048 THEN <<192 + (cp \div 64), 128 + (cp % 64)>>
    ELSE IF cp < 65536
         THEN <<224 + (cp \div 4096), 128 + ((cp \div 64) % 64), 128 + (cp % 64)>>
    ELSE <<240 + (cp \div 262144), 128 + ((cp \div 4096) % 64),
           128 + ((cp \div 64) % 64), 128 + (cp % 64)>>

\* where a long string is cut in two to be encoded: in the middle, and not
\* between the halves of a surrogate pair
Utf8Split(s) ==
    IF IsHighSurrogate(s[Len(s) \div 2]) /\ IsLowSurrogate(s[(Len(s) \div 2) + 1])
    THEN (Len(s) \div 2) + 1
    ELSE Len(s) \div 2

RECURSIVE Utf8Encode(_)
Utf8Encode(s) ==
    IF Len(s) > 2
    THEN Utf8Encode(SubSeq(s, 1, Utf8Split(s))) \o Utf8Encode(SubSeq(s, Utf8Split(s) + 1, Len(s)))
    ELSE IF s = <<>> THEN <<>>
    ELSE IF IsHighSurrogate(s[1]) /\ Len(s) >= 2 /\ IsLowSurrogate(s[2])
         THEN Utf8OfCodePoint(65536 + (s[1] - 55296) * 1024 + (s[2] - 56320))
              \o Utf8Encode(SubSeq(s, 3, Len(s)))
    ELSE IF IsHighSurrogate(s[1]) \/ IsLowSurrogate(s[1])
         THEN <<239, 191, 189>> \o Utf8Encode(Tail(s))
    ELSE Utf8OfCodePoint(s[1]) \o Utf8Encode(Tail(s))

IsCont(bytes, i) == i <= Len(bytes) /\ bytes[i] >= 128 /\ bytes[i] <= 191

CodeUnitsOf(cp) ==
    IF cp < 65536 THEN <<cp>>
    ELSE <<55296 + ((cp - 65536) \div 1024), 56320 + ((cp - 65536) % 1024)>>

\* the string of UTF-8 bytes: a byte that starts no well-formed sequence
\* decodes to U+FFFD
RECURSIVE Utf8Decode(_)
Utf8Decode(bytes) ==
    IF bytes = <<>> THEN <<>>
    ELSE LET b == bytes[1]
             n == Len(bytes)
         IN  IF b < 128 THEN <<b>> \o Utf8Decode(Tail(bytes))
             ELSE IF b >= 194 /\ b <= 223 /\ IsCont(bytes, 2)
                  THEN CodeUnitsOf((b - 192) * 64 + (bytes[2] - 128))
                       \o Utf8Decode(SubSeq(bytes, 3, n))
             ELSE IF b >= 224 /\ b <= 239 /\ IsCont(bytes, 2) /\ IsCont(bytes, 3)
                     /\ (b - 224) * 4096 + (bytes[2] - 128) * 64 >= 2048
                     /\ ~((b - 224) * 4096 + (bytes[2] - 128) * 64 >= 55296
                          /\ (b - 224) * 4096 + (bytes[2] - 128) * 64 <= 57343)
                  THEN CodeUnitsOf((b - 224) * 4096 + (bytes[2] - 128) * 64
                                   + (bytes[3] - 128))
                       \o Utf8Decode(SubSeq(bytes, 4, n))
             ELSE IF b >= 240 /\ b <= 244 /\ IsCont(bytes, 2) /\ IsCont(bytes, 3)
                     /\ IsCont(bytes, 4)
                     /\ (b - 240) * 262144 + (bytes[2] - 128) * 4096 >= 65536
                  THEN CodeUnitsOf((b - 240) * 262144 + (bytes[2] - 128) * 4096
                                   + (bytes[3] - 128) * 64 + (bytes[4] - 128))
                       \o Utf8Decode(SubSeq(bytes, 5, n))
             ELSE <<65533>> \o Utf8Decode(Tail(bytes))

\* s.split(':')
RECURSIVE Split(_)
Split(s) ==
    LET idx == {i \in 1..Len(s) : s[i] = Colon}
    IN  IF idx = {} THEN <<s>>
        ELSE LET i == CHOOSE k \in idx : \A j \in idx : k <= j
             IN  <<SubSeq(s, 1, i - 1)>> \o Split(SubSeq(s, i + 1, Len(s)))

-----------------------------------------------------------------------------
(* Configuration (config/config.service.js) *)

\* ENCRYPTION_KEY: 64 hex characters, the 32-byte key 00..01
securityKey == [i \in 1..64 |-> IF i = 64 THEN 49 ELSE 48]

algorithm == "aes-256-gcm"

-----------------------------------------------------------------------------
(* node:crypto, aes-256-gcm.  The block cipher is a small arithmetic        *)
(* stand-in; the mode is GCM's: a keystream of (key, IV, position) xor-ed   *)
(* onto the data, and a tag that masks a polynomial hash of the ciphertext  *)
(* and its length (evaluated in the fields of 257 and of 251 elements at    *)
(* key-derived non-zero points) with a block derived from key and IV.       *)

\* folding the bytes lo..hi into acc, byte b taking acc to acc * 31 + b + 1
\* modulo 251, is the map acc -> m[1] * acc + m[2]; the map of a range is
\* composed of the maps of its halves
MixCompose(f, g) == <<(g[1] * f[1]) % 251, (g[1] * f[2] + g[2]) % 251>>

RECURSIVE MixMap(_, _, _)
MixMap(bytes, lo, hi) ==
    IF lo > hi THEN <<1, 0>>
    ELSE IF lo = hi THEN <<31, (bytes[lo] + 1) % 251>>
    ELSE MixCompose(MixMap(bytes, lo, (lo + hi) \div 2), MixMap(bytes, ((lo + hi) \div 2) + 1, hi))

MixApply(m, acc) == (m[1] * acc + m[2]) % 251

Mix(bytes, i, acc) == MixApply(MixMap(bytes, i, Len(bytes)), acc)

\* Buffer.from(securityKey, 'hex') and what the cipher derives from the key
keyBuf == HexDecode(securityKey)
KeyScheduleOf(key) ==
    [ks |-> Mix(key, 1, 7), h |-> 1 + (Mix(key, 1, 11) % 256),
     h2 |-> 1 + (Mix(key, 1, 13) % 250), mask |-> Mix(key, 1, 5)]
KeySchedule == KeyScheduleOf(keyBuf)

\* the cipher context createCipheriv / createDecipheriv derives from key and IV
CipherCtxOf(ksched, m) ==
    [ks |-> (ksched.ks * 7 + m * 13 + 5) % 256,
     h |-> ksched.h,
     h2 |-> ksched.h2,
     mask |-> (ksched.mask * 11 + m * 17 + 3) % 256]

CipherCtx(iv) == CipherCtxOf(KeySchedule, Mix(iv, 1, 3))

Keystream(ctx, i) == (ctx.ks + i * 31) % 256

CtrXor(ctx, bytes) == [i \in 1..Len(bytes) |-> Xor(bytes[i], Keystream(ctx, i))]

\* the polynomial with the bytes and their number as coefficients, at h in
\* the field of p elements
RECURSIVE GHash(_, _, _, _, _)
GHash(p, h, bytes, i, acc) ==
    IF i > Len(bytes) THEN ((acc + Len(bytes)) * h) % p
    ELSE GHash(p, h, bytes, i + 1, ((acc + bytes[i]) * h) % p)

GHashByte(g, j) == IF j = 1 THEN g % 256 ELSE IF j = 2 THEN g \div 256 ELSE (g * j) % 256

\* cipher.getAuthTag(): 16 bytes
MaskTag(mask, g) == [j \in 1..16 |-> Xor((mask + j * 29) % 256, GHashByte(g, j))]

AuthTag(ctx, ct) ==
    MaskTag(ctx.mask, GHash(257, ctx.h, ct, 1, 0) + 257 * GHash(251, ctx.h2, ct, 1, 0))

\* tag lengths setAuthTag accepts for GCM
IsValidGCMTagLength(n) == n = 4 \/ n = 8 \/ (n >= 12 /\ n <= 16)

\* crypto.randomBytes(12): any 12 bytes; the model draws from NumIVs of them
RandomIVs == {[i \in 1..12 |-> (r * 37 + i * 11) % 256] : r \in 1..NumIVs}

-----------------------------------------------------------------------------
(* encryption.security.js *)

Ok(v) == [ok |-> TRUE, value |-> v, error |-> ""]
Throw(e) == [ok |-> FALSE, value |-> <<>>, error |-> e]

\* cipher_final with the template literal's last two segments in the other order
cipher_final_swapped(cipher, IV, ct) ==
    Ok(HexEncode(IV) \o <<Colon>> \o HexEncode(ct) \o <<Colon>> \o HexEncode(AuthTag(cipher, ct)))

\* `${IV.toString('hex')}:${tag}:${encrypted}`
cipher_final(cipher, IV, ct) ==
    Ok(HexEncode(IV) \o <<Colon>> \o HexEncode(AuthTag(cipher, ct)) \o <<Colon>> \o HexEncode(ct))

\* cipher.update(data, 'utf8', 'hex') and cipher.final('hex')
cipher_update(cipher, IV, bytes) == cipher_final(cipher, IV, CtrXor(cipher, bytes))

\* encryptData with cipher.update(data, "latin1", "hex")
encryptData_latin1(d, IV) ==
    IF d = Undefined THEN Throw("ERR_INVALID_ARG_TYPE")
    ELSE cipher_update(CipherCtx(IV), IV, [i \in 1..Len(d) |-> d[i] % 256])

\* encryptData(data), with IV the bytes crypto.randomBytes(12) returned
encryptData(d, IV) ==
    IF d = Undefined THEN Throw("ERR_INVALID_ARG_TYPE")
    ELSE cipher_update(CipherCtx(IV), IV, Utf8Encode(d))

\* decryptData without decipher.final(): the text decipher.update returned,
\* the tag never compared
decipher_final_unauthenticated(decipher, tagBuf, ct) == Ok(Utf8Decode(CtrXor(decipher, ct)))

\* decipher.final('utf8'): the tag set is compared with as many bytes of the
\* tag of the ciphertext; only then is the decrypted text returned
decipher_final(decipher, tagBuf, ct) ==
    IF tagBuf # SubSeq(AuthTag(decipher, ct), 1, Len(tagBuf))
    THEN Throw("unable to authenticate data")
    ELSE Ok(Utf8Decode(CtrXor(decipher, ct)))

\* decipher.update(content, 'hex', 'utf8')
decipher_update(decipher, tagBuf, content) ==
    IF content = Undefined THEN Throw("ERR_INVALID_ARG_TYPE")
    ELSE IF Len(content) % 2 # 0 THEN Throw("ERR_INVALID_ARG_VALUE")
    ELSE decipher_final(decipher, tagBuf, HexDecode(content))

\* decipher.setAuthTag(Buffer.from(tag, 'hex'))
decipher_setAuthTag(decipher, tagBuf, content) ==
    IF ~IsValidGCMTagLength(Len(tagBuf)) THEN Throw("ERR_CRYPTO_INVALID_AUTH_TAG")
    ELSE decipher_update(decipher, tagBuf, content)

\* crypto.createDecipheriv(algorithm, key, Buffer.from(iv, 'hex'))
createDecipheriv(ivBuf, tag, content) ==
    IF ivBuf = <<>> THEN Throw("ERR_CRYPTO_INVALID_IV")
    ELSE IF tag = Undefined THEN Throw("ERR_INVALID_ARG_TYPE")
    ELSE decipher_setAuthTag(CipherCtx(ivBuf), HexDecode(tag), content)

\* const [iv, tag, content] = parts: segments after the third are dropped,
\* a missing one is undefined
Destructure(parts) ==
    createDecipheriv(HexDecode(parts[1]),
                     IF Len(parts) >= 2 THEN parts[2] ELSE Undefined,
                     IF Len(parts) >= 3 THEN parts[3] ELSE Undefined)

\* decryptData(encryptedData)
decryptData(encryptedData) ==
    IF encryptedData = Undefined THEN Throw("TypeError")
    ELSE Destructure(Split(encryptedData))

-----------------------------------------------------------------------------
(* The cipher on its own: encryptData on every plaintext and drawn IV, and  *)
(* decryptData on what encryptData returned, on that value with one         *)
(* character replaced, with text appended, or cut to its first segments.    *)

Plaintexts == SeqsUpTo(CodeUnits, MaxLen)

NoResult == [ok |-> FALSE, value |-> <<>>, error |-> "not called"]
NoTamper == [kind |-> "none", pos |-> 0, ch |-> 0]

\* bits flipped in the value of one hex digit of an encoded value
HexMasks == {1, 2, 4, 8, 15}

\* characters that are no hex digit, put in place of one: 'g' and ':'
NonHexChars == {103, Colon}

\* text appended to an encoded value: ":" and a fourth segment, one more
\* hex digit, characters that are not hex
Appendices == {<<Colon>>, <<Colon, 48, 48>>, <<48>>, <<103>>, <<103, 103>>, <<48, 48>>}

RECURSIVE Join(_)
Join(parts) ==
    IF Len(parts) = 1 THEN parts[1]
    ELSE parts[1] \o <<Colon>> \o Join(Tail(parts))

CipherInit ==
    /\ data = <<>>
    /\ encoded = <<>>
    /\ input = <<>>
    /\ tamper = NoTamper
    /\ result = NoResult

Encrypt(x, iv) ==
    /\ encoded = <<>>
    /\ data' = x
    /\ encoded' = encryptData(x, iv).value
    /\ input' = <<>>
    /\ tamper' = NoTamper
    /\ result' = NoResult
    /\ UNCHANGED <<appVars, auxVars>>

Decrypt ==
    /\ encoded # <<>>
    /\ result = NoResult
    /\ input' = encoded
    /\ tamper' = [kind |-> "intact", pos |-> 0, ch |-> 0]
    /\ result' = decryptData(input')
    /\ UNCHANGED <<data, encoded>>
    /\ UNCHANGED <<appVars, auxVars>>

\* one hex digit replaced by the digit whose value differs in the bits of m
DecryptFlipped(pos, m) ==
    /\ encoded # <<>>
    /\ result = NoResult
    /\ HexVal(encoded[pos]) >= 0
    /\ input' = [encoded EXCEPT ![pos] = HexDigit(Xor(HexVal(encoded[pos]), m))]
    /\ tamper' = [kind |-> "flip", pos |-> pos, ch |-> input'[pos]]
    /\ result' = decryptData(input')
    /\ UNCHANGED <<data, encoded>>
    /\ UNCHANGED <<appVars, auxVars>>

\* one of the digits a-f replaced by its upper-case form
DecryptRecased(pos) ==
    /\ encoded # <<>>
    /\ result = NoResult
    /\ encoded[pos] >= 97
    /\ input' = [encoded EXCEPT ![pos] = encoded[pos] - 32]
    /\ tamper' = [kind |-> "recase", pos |-> pos, ch |-> input'[pos]]
    /\ result' = decryptData(input')
    /\ UNCHANGED <<data, encoded>>
    /\ UNCHANGED <<appVars, auxVars>>

\* one character replaced by a character that is no hex digit
DecryptReplaced(pos, c) ==
    /\ encoded # <<>>
    /\ result = NoResult
    /\ c # encoded[pos]
    /\ input' = [encoded EXCEPT ![pos] = c]
    /\ tamper' = [kind |-> "replace", pos |-> pos, ch |-> c]
    /\ result' = decryptData(input')
    /\ UNCHANGED <<data, encoded>>
    /\ UNCHANGED <<appVars, auxVars>>

DecryptAppended(ext) ==
    /\ encoded # <<>>
    /\ result = NoResult
    /\ input' = encoded \o ext
    /\ tamper' = [kind |-> "append", pos |-> Len(encoded) + 1, ch |-> ext[1]]
    /\ result' = decryptData(input')
    /\ UNCHANGED <<data, encoded>>
    /\ UNCHANGED <<appVars, auxVars>>

DecryptCut(n) ==
    /\ encoded # <<>>
    /\ result = NoResult
    /\ input' = Join(SubSeq(Split(encoded), 1, n))
    /\ tamper' = [kind |-> "cut", pos |-> n, ch |-> 0]
    /\ result' = decryptData(input')
    /\ UNCHANGED <<data, encoded>>
    /\ UNCHANGED <<appVars, auxVars>>

EncryptStep == \E x \in Plaintexts, iv \in RandomIVs : Encrypt(x, iv)
DecryptFlippedStep == \E pos \in 1..Len(encoded), m \in HexMasks : DecryptFlipped(pos, m)
DecryptRecasedStep == \E pos \in 1..Len(encoded) : DecryptRecased(pos)
DecryptReplacedStep == \E pos \in 1..Len(encoded), c \in NonHexChars : DecryptReplaced(pos, c)
DecryptAppendedStep == \E ext \in Appendices : DecryptAppended(ext)
DecryptCutStep == \E n \in 1..2 : DecryptCut(n)

-----------------------------------------------------------------------------
(* bcrypt.  A hash is the string "$2b$" cost "$" salt digest: two decimal    *)
(* digits of cost, 22 characters of salt and 31 of digest in bcrypt's       *)
(* base-64 alphabet.  The digest is a small arithmetic stand-in for          *)
(* eksblowfish: a function of cost, salt and the first 72 bytes of the      *)
(* password.                                                                *)

\* Number(SALT_ROUND) of config/config.service.js
SALT_ROUND == 10

BcryptMaxBytes == 72

B64Char(n) ==
    IF n = 0 THEN 46 ELSE IF n = 1 THEN 47
    ELSE IF n < 28 THEN 63 + n ELSE IF n < 54 THEN 69 + n ELSE n - 6

\* the salts bcrypt.genSalt draws: any 16 random bytes, NumSalts of them here
RandomSalts == {[i \in 1..22 |-> B64Char((r * 7 + i * 3) % 64)] : r \in 1..NumSalts}

\* bcrypt clamps the cost to 4..31
BcryptRounds(r) == IF r < 4 THEN 4 ELSE IF r > 31 THEN 31 ELSE r

BcryptPrefix(rounds) == <<36, 50, 98, 36, 48 + (rounds \div 10), 48 + (rounds % 10), 36>>

BcryptDigest(rounds, salt, password) ==
    LET bytes == Utf8Encode(password)
        key == SubSeq(bytes, 1, IF Len(bytes) > BcryptMaxBytes THEN BcryptMaxBytes ELSE Len(bytes))
        k == Mix(key, 1, rounds)
        st == Mix(salt, 1, 13)
    IN  [j \in 1..31 |-> B64Char((k * (j + 3) + st * 5 + Len(key) * j + j) % 64)]

BcryptHash(password, rounds, salt) ==
    BcryptPrefix(rounds) \o salt \o BcryptDigest(rounds, salt, password)

Passwords == {<<112, 119>>, <<113>>}

\* a password one byte longer than bcrypt reads: 'a' 72 times, then c
LongPassword(c) == [i \in 1..(BcryptMaxBytes + 1) |-> IF i <= BcryptMaxBytes THEN 97 ELSE c]
LongPasswords == {LongPassword(97), LongPassword(98)}
HashPasswords == Passwords \cup LongPasswords

(* hash.security.js *)

\* bcrypt.hash on the passwords and salts of the model, evaluated once each
Hashed == [password \in HashPasswords, salt \in RandomSalts |-> BcryptHash(password, BcryptRounds(SALT_ROUND), salt)]

\* hashPassword(password), with salt the salt bcrypt generated
hashPassword(password, salt) == Hashed[password, salt]

\* bcrypt.compare: the digest is recomputed with the cost and the salt the
\* hash embeds; a string that is no bcrypt hash compares false
BcryptCompare(password, h) ==
    /\ Len(h) = 60
    /\ SubSeq(h, 1, 4) = <<36, 50, 98, 36>>
    /\ h[7] = 36
    /\ h[5] \in 48..57 /\ h[6] \in 48..57
    /\ h = BcryptHash(password, (h[5] - 48) * 10 + (h[6] - 48), SubSeq(h, 8, 29))

\* comparePassword(password, hashedPassword)
comparePassword(password, hashedPassword) == BcryptCompare(password, hashedPassword)

-----------------------------------------------------------------------------
(* hashPassword and comparePassword as functions of what they are given:   *)
(* the value config exports as SALT_ROUND, passwords longer than bcrypt     *)
(* reads, and strings that are no bcrypt hash.                              *)

\* a JavaScript number: NaN, or an integer
NaN == [nan |-> TRUE, n |-> 0]
Num(n) == [nan |-> FALSE, n |-> n]

IsDigits(s) == s # <<>> /\ \A i \in 1..Len(s) : s[i] \in 48..57

RECURSIVE DigitsValue(_, _, _)
DigitsValue(s, i, acc) ==
    IF i > Len(s) THEN acc ELSE DigitsValue(s, i + 1, acc * 10 + (s[i] - 48))

\* Number(value): undefined is NaN, "" is 0, a decimal integer is its value,
\* any other text of the model is NaN
Number(value) ==
    IF value = Undefined THEN NaN
    ELSE IF value = <<>> THEN Num(0)
    ELSE IF IsDigits(value) THEN Num(DigitsValue(value, 1, 0))
    ELSE IF value[1] = 45 /\ IsDigits(Tail(value)) THEN Num(0 - DigitsValue(Tail(value), 1, 0))
    ELSE NaN

\* bcrypt.genSalt(rounds): a falsy rounds (NaN, 0) is 10; the native code
\* takes the number as an unsigned byte and clamps it to 4..31
genSalt_rounds(rounds) ==
    IF rounds.nan \/ rounds.n = 0 THEN 10 ELSE BcryptRounds(rounds.n % 256)

\* bcrypt.hash(data, rounds) for a number of rounds: genSalt, then the hash
bcrypt_hash(password, rounds, salt) == Ok(BcryptHash(password, genSalt_rounds(rounds), salt))

\* hashPassword(password) where config exports cost as SALT_ROUND
hashPasswordUnder(cost, password, salt) == bcrypt_hash(password, Number(cost), salt)

\* the promise comparePassword returns: bcrypt.compare rejects only when an
\* argument is missing
comparePasswordResult(password, hashedPassword) ==
    IF password = Undefined \/ hashedPassword = Undefined
    THEN Throw("data and hash arguments required")
    ELSE Ok(comparePassword(password, hashedPassword))

\* values of SALT_ROUND: absent, "", "abc", "0", "-1", "10", "12"
CostInputs == {Undefined, <<>>, <<97, 98, 99>>, <<48>>, <<45, 49>>, <<49, 48>>, <<49, 50>>}

\* what is handed to comparePassword as the stored hash: the hash, the hash
\* with its last character changed (still a bcrypt hash), and strings that
\* have not the structure of a hash
HashKinds == {"intact", "digest", "truncated", "prefix", "plaintext", "empty"}
StoredHash(h, kind, password) ==
    CASE kind = "intact" -> h
      [] kind = "digest" -> [h EXCEPT ![Len(h)] = IF h[Len(h)] = 46 THEN 47 ELSE 46]
      [] kind = "truncated" -> SubSeq(h, 1, Len(h) - 1)
      [] kind = "prefix" -> [h EXCEPT ![1] = 120]
      [] kind = "plaintext" -> password
      [] OTHER -> <<>>

NoHashing == [cost |-> Undefined, password |-> <<>>, hashed |-> NoResult]
NoComparing == [password |-> <<>>, kind |-> "none", hash |-> <<>>, verdict |-> NoResult]

HashInit ==
    /\ hashing = NoHashing
    /\ comparing = NoComparing

Hash(cost, password, salt) ==
    /\ hashing = NoHashing
    /\ hashing' = [cost |-> cost, password |-> password,
                   hashed |-> hashPasswordUnder(cost, password, salt)]
    /\ UNCHANGED comparing
    /\ UNCHANGED <<cipherVars, appVars, process, requests, session>>

Compared(password, kind, hash) ==
    [password |-> password, kind |-> kind, hash |-> hash,
     verdict |-> comparePasswordResult(password, hash)]

Compare(password, kind) ==
    /\ hashing.hashed.ok
    /\ comparing = NoComparing
    /\ comparing' = Compared(password, kind, StoredHash(hashing.hashed.value, kind, hashing.password))
    /\ UNCHANGED hashing
    /\ UNCHANGED <<cipherVars, appVars, process, requests, session>>

HashStep == \E cost \in CostInputs, password \in HashPasswords, salt \in RandomSalts : Hash(cost, password, salt)
CompareStep == \E password \in HashPasswords, kind \in HashKinds : Compare(password, kind)

-----------------------------------------------------------------------------
(* connection.db.js: userSchema *)

Emails == {"a@x.io", "b@x.io"}

\* phone values a caller supplies: absent, empty, "+" U+00E9
PhoneInputs == {Undefined, <<>>, <<43, 233>>}

Falsy(value) == value = Undefined \/ value = <<>>

\* encryptData on the phone values and IVs of the model, evaluated once each
Encrypted == [value \in {v \in PhoneInputs : ~Falsy(v)}, iv \in RandomIVs |-> encryptData(value, iv)]

\* phone.set without the call of encryptData
phone_set_plain(value, iv) == value

\* phone.set: a falsy value is stored as it is, any other is encrypted
phone_set(value, iv) == IF Falsy(value) THEN value ELSE Encrypted[value, iv].value

\* the cipher functions phone.set invokes on value
phone_set_calls(value) == IF Falsy(value) THEN {} ELSE {"encryptData"}

\* decryptData on the values phone.set stores, evaluated once each
Decrypted == [value \in {phone_set(v, iv) : v \in PhoneInputs, iv \in RandomIVs} |-> decryptData(value)]

\* phone.get without the call of decryptData
phone_get_raw(value) == Ok(value)

\* phone.get
phone_get(value) == Decrypted[value]

\* a document of the collection: its stored fields
Document(id, email, password, phone) ==
    [id |-> id, email |-> email, password |-> password, phone |-> phone]

\* doc.phone as the holder of a hydrated document reads it: through the getter
DocPhone(doc) == phone_get(doc.phone)

ObjectOf(doc, p) ==
    IF p.ok
    THEN [ok |-> TRUE, error |-> "",
          value |-> [id |-> doc.id, email |-> doc.email,
                     password |-> doc.password, phone |-> p.value]]
    ELSE [ok |-> FALSE, error |-> p.error,
          value |-> [id |-> doc.id, email |-> doc.email,
                     password |-> Undefined, phone |-> Undefined]]

\* doc.toObject() and doc.toJSON() (getters: true): every path of the schema is
\* read through its getters, also a path the document has no value for
toObject(doc) == ObjectOf(doc, phone_get(doc.phone))

JSONOf(first, rest) ==
    IF ~first.ok THEN [ok |-> FALSE, error |-> first.error, value |-> <<>>]
    ELSE IF ~rest.ok THEN rest
    ELSE [ok |-> TRUE, error |-> "", value |-> <<first.value>> \o rest.value]

\* JSON.stringify of an array of documents, as res.json does it
RECURSIVE toJSONAll(_)
toJSONAll(docs) ==
    IF docs = <<>> THEN [ok |-> TRUE, error |-> "", value |-> <<>>]
    ELSE JSONOf(toObject(docs[1]), toJSONAll(Tail(docs)))

-----------------------------------------------------------------------------
(* connection.db.js: the repository over the users collection *)

Ids == 1..Cardinality(Emails)

\* a query is an email to match, or "*" for the empty filter {}
Queries == Emails \cup {"*"}
Matches(doc, q) == q = "*" \/ doc.email = q

RECURSIVE Select(_, _)
Select(docs, q) ==
    IF docs = <<>> THEN <<>>
    ELSE IF Matches(docs[1], q) THEN <<docs[1]>> \o Select(Tail(docs), q)
    ELSE Select(Tail(docs), q)

IdsOf(docs) == {docs[i].id : i \in 1..Len(docs)}

RECURSIVE WithIds(_, _)
WithIds(docs, ids) ==
    IF docs = <<>> THEN <<>>
    ELSE IF docs[1].id \in ids THEN <<docs[1]>> \o WithIds(Tail(docs), ids)
    ELSE WithIds(Tail(docs), ids)

First(docs) == IF docs = <<>> THEN <<>> ELSE <<docs[1]>>

\* .skip(skip).limit(limit); limit 0 is no limit
Window(docs, skip, limit) ==
    SubSeq(docs, skip + 1, IF limit = 0 \/ skip + limit > Len(docs) THEN Len(docs) ELSE skip + limit)

Returned(op, docs) == [op |-> op, docs |-> docs, error |-> ""]
Failed(op, docs, e) == [op |-> op, docs |-> docs, error |-> e]
NoRet == [op |-> "", docs |-> <<>>, error |-> ""]
NoResp == [status |-> 0, message |-> "", data |-> <<>>]

Read(op, docs) ==
    /\ ret' = Returned(op, docs)
    /\ resp' = NoResp
    /\ cipherLog' = {}
    /\ UNCHANGED <<store, plainOf>>
    /\ UNCHANGED cipherVars

findOne(q) == Read("findOne", First(Select(store, q)))

findById(id) == Read("findById", WithIds(store, {id}))

findAll(q, limit, skip) == Read("findAll", Window(Select(store, q), skip, limit))

paginate(q, page, limit) == Read("paginate", Window(Select(store, q), (page - 1) * limit, limit))

\* an _id is opaque and unique among the stored documents: the model takes
\* the least number no stored document has
NewId(docs) == CHOOSE n \in 1..(Len(docs) + 1) : /\ n \notin IdsOf(docs)
                                                 /\ \A k \in 1..(n - 1) : k \in IdsOf(docs)

\* model.create([data]) and model.insertMany(dataArray): the documents are
\* built (setters run) and inserted one by one; the unique index on email
\* rejects a duplicate and ends the call
RECURSIVE Insert(_, _, _, _)
Insert(docs, made, dataArray, ivs) ==
    IF dataArray = <<>> THEN [docs |-> docs, made |-> made, error |-> ""]
    ELSE IF \E i \in 1..Len(docs) : docs[i].email = dataArray[1].email
         THEN [docs |-> docs, made |-> made, error |-> "E11000 duplicate key error"]
    ELSE Insert(Append(docs, Document(NewId(docs), dataArray[1].email, dataArray[1].password,
                                      phone_set(dataArray[1].phone, ivs[1]))),
                Append(made, [id |-> NewId(docs), phone |-> dataArray[1].phone]),
                Tail(dataArray), Tail(ivs))

WrittenBy(made, id) == made[CHOOSE i \in 1..Len(made) : made[i].id = id].phone

Inserted(op, done) ==
    /\ store' = done.docs
    /\ plainOf' = [id \in DOMAIN plainOf |->
                     IF \E i \in 1..Len(done.made) : done.made[i].id = id
                     THEN WrittenBy(done.made, id) ELSE plainOf[id]]
    /\ ret' = Failed(op, WithIds(done.docs, {done.made[i].id : i \in 1..Len(done.made)}), done.error)
    /\ resp' = NoResp
    /\ cipherLog' = UNION {phone_set_calls(done.made[i].phone) : i \in 1..Len(done.made)}
    /\ UNCHANGED cipherVars

create(d, iv) == Inserted("create", Insert(store, <<>>, <<d>>, <<iv>>))

createMany(dataArray, ivs) == Inserted("createMany", Insert(store, <<>>, dataArray, ivs))

\* the update {phone: value} is cast once (setters run), then applied to the
\* documents whose _id is in ids; the updated document is returned, if asked
Updated(op, ids, value, stored, returnsDoc) ==
    /\ store' = [i \in 1..Len(store) |->
                    IF store[i].id \in ids THEN [store[i] EXCEPT !.phone = stored]
                    ELSE store[i]]
    /\ plainOf' = [i \in DOMAIN plainOf |-> IF i \in ids THEN value ELSE plainOf[i]]
    /\ ret' = Returned(op, IF returnsDoc THEN WithIds(store', ids) ELSE <<>>)
    /\ resp' = NoResp
    /\ cipherLog' = phone_set_calls(value)
    /\ UNCHANGED cipherVars

updateById(id, value, iv) ==
    Updated("updateById", IdsOf(WithIds(store, {id})), value, phone_set(value, iv), TRUE)

updateOne(q, value, iv) ==
    Updated("updateOne", IdsOf(First(Select(store, q))), value, phone_set(value, iv), TRUE)

updateMany(q, value, iv) ==
    Updated("updateMany", IdsOf(Select(store, q)), value, phone_set(value, iv), FALSE)

Deleted(op, found, returnsDoc) ==
    /\ store' = WithIds(store, IdsOf(store) \ IdsOf(found))
    /\ ret' = Returned(op, IF returnsDoc THEN found ELSE <<>>)
    /\ resp' = NoResp
    /\ cipherLog' = {}
    /\ UNCHANGED plainOf
    /\ UNCHANGED cipherVars

deleteById(id) == Deleted("deleteById", WithIds(store, {id}), TRUE)

deleteOne(q) == Deleted("deleteOne", First(Select(store, q)), TRUE)

deleteMany(q) == Deleted("deleteMany", Select(store, q), FALSE)

-----------------------------------------------------------------------------
(* user.service.js and user.controller.js *)

\* res.status(statusCode).json({status, message, data})
successResponse(statusCode, message, views) ==
    [status |-> statusCode, message |-> message, data |-> views]

\* errorResponse: error.statusCode ?? 500
errorResponse(statusCode, message) ==
    [status |-> statusCode, message |-> message, data |-> <<>>]

\* the response to a handler that returned docs, serialised to body
Respond(statusCode, message, body) ==
    IF body.ok THEN successResponse(statusCode, message, body.value)
    ELSE errorResponse(500, body.error)

\* signup past the existence check: the password is hashed, the user is
\* created and the array create returned goes into the response
signup_create(inputs, user) ==
    /\ store' = store \o user
    /\ plainOf' = [plainOf EXCEPT ![user[1].id] = inputs.phone]
    /\ ret' = NoRet
    /\ cipherLog' = phone_set_calls(inputs.phone) \cup {"decryptData"}
    /\ resp' = Respond(201, "user created successfully", toJSONAll(user))

\* POST /user/signup: signup(req.body), then the response
signup(inputs, salt, iv) ==
    /\ UNCHANGED cipherVars
    /\ IF First(Select(store, inputs.email)) # <<>>
       THEN /\ resp' = errorResponse(409, "email already exist")
            /\ cipherLog' = {}
            /\ ret' = NoRet
            /\ UNCHANGED <<store, plainOf>>
       ELSE signup_create(inputs, <<Document(NewId(store), inputs.email,
                                             hashPassword(inputs.password, salt),
                                             phone_set(inputs.phone, iv))>>)

\* the user object login returns: user.toObject() without its password
WithoutPassword(userObject) ==
    IF userObject.ok
    THEN [userObject EXCEPT !.value = <<[userObject.value EXCEPT !.password = Undefined]>>]
    ELSE userObject

\* login past the existence check
login_verify(inputs, user) ==
    IF ~comparePassword(inputs.password, user.password)
    THEN /\ resp' = errorResponse(401, "Invalid email or password")
         /\ cipherLog' = {}
    ELSE /\ resp' = Respond(200, "user logged in successfully", WithoutPassword(toObject(user)))
         /\ cipherLog' = {"decryptData"}

\* POST /user/login: login(req.body), then the response
login(inputs) ==
    /\ UNCHANGED cipherVars
    /\ ret' = NoRet
    /\ UNCHANGED <<store, plainOf>>
    /\ IF First(Select(store, inputs.email)) = <<>>
       THEN /\ resp' = errorResponse(404, "Invalid email or password")
            /\ cipherLog' = {}
       ELSE login_verify(inputs, First(Select(store, inputs.email))[1])

\* request bodies: signup with the first password, login with any
UserInputs == [email : Emails, password : {<<112, 119>>}, phone : PhoneInputs]
LoginInputs == [email : Emails, password : Passwords]

-----------------------------------------------------------------------------
(* Start-up: the value encryption.security.js imports as securityKey, then  *)
(* bootstrap, then requests that reach encryptData and decryptData.         *)

\* Buffer.from(securityKey, 'hex') throws for a value that is no string; the
\* cipher refuses a key that has not the 32 bytes of aes-256
KeyError(key) ==
    IF key = Undefined THEN "ERR_INVALID_ARG_TYPE"
    ELSE IF Len(HexDecode(key)) # 32 THEN "ERR_CRYPTO_INVALID_KEYLEN"
    ELSE ""

CipherCtxUnder(key, iv) == CipherCtxOf(KeyScheduleOf(HexDecode(key)), Mix(iv, 1, 3))

\* encryptData(data) where config exports key as securityKey
encryptDataUnder(key, d, IV) ==
    IF KeyError(key) # "" THEN Throw(KeyError(key))
    ELSE IF d = Undefined THEN Throw("ERR_INVALID_ARG_TYPE")
    ELSE cipher_update(CipherCtxUnder(key, IV), IV, Utf8Encode(d))

createDecipherivUnder(key, ivBuf, tag, content) ==
    IF KeyError(key) # "" THEN Throw(KeyError(key))
    ELSE IF ivBuf = <<>> THEN Throw("ERR_CRYPTO_INVALID_IV")
    ELSE IF tag = Undefined THEN Throw("ERR_INVALID_ARG_TYPE")
    ELSE decipher_setAuthTag(CipherCtxUnder(key, ivBuf), HexDecode(tag), content)

DestructureUnder(key, parts) ==
    createDecipherivUnder(key, HexDecode(parts[1]),
                          IF Len(parts) >= 2 THEN parts[2] ELSE Undefined,
                          IF Len(parts) >= 3 THEN parts[3] ELSE Undefined)

\* decryptData(encryptedData) where config exports key as securityKey
decryptDataUnder(key, encryptedData) ==
    IF encryptedData = Undefined THEN Throw("TypeError")
    ELSE DestructureUnder(key, Split(encryptedData))

\* values of securityKey: absent, "", 31 bytes of hex, 33 bytes of hex,
\* 64 characters that are no hex, and the 32-byte key
KeyInputs ==
    {Undefined, <<>>, SubSeq(securityKey, 1, 62), securityKey \o <<48, 48>>,
     [i \in 1..64 |-> 107], securityKey}

NoCall == [fn |-> "", arg |-> <<>>, result |-> NoResult]

BootInit == process = [phase |-> "init", securityKey |-> Undefined, call |-> NoCall]

\* the import of config.service.js binds securityKey
ImportConfig(key) ==
    /\ process.phase = "init"
    /\ process' = [process EXCEPT !.phase = "imported", !.securityKey = key]
    /\ UNCHANGED <<cipherVars, appVars, hashVars, requests, session>>

\* bootstrap(): authenticateDB, the middlewares and routes, app.listen;
\* nothing of it reads the key
bootstrap ==
    /\ process.phase = "imported"
    /\ process' = [process EXCEPT !.phase = "listening"]
    /\ UNCHANGED <<cipherVars, appVars, hashVars, requests, session>>

\* a request writes a phone: phone.set calls encryptData
RequestEncrypt(d, iv) ==
    /\ process.phase = "listening"
    /\ process.call = NoCall
    /\ process' = [process EXCEPT !.call = [fn |-> "encryptData", arg |-> d,
                                            result |-> encryptDataUnder(process.securityKey, d, iv)]]
    /\ UNCHANGED <<cipherVars, appVars, hashVars, requests, session>>

\* a request reads a stored phone: phone.get calls decryptData
RequestDecrypt(value) ==
    /\ process.phase = "listening"
    /\ process.call = NoCall
    /\ process' = [process EXCEPT !.call = [fn |-> "decryptData", arg |-> value,
                                            result |-> decryptDataUnder(process.securityKey, value)]]
    /\ UNCHANGED <<cipherVars, appVars, hashVars, requests, session>>

ImportConfigStep == \E key \in KeyInputs : ImportConfig(key)
RequestEncryptStep == \E d \in Plaintexts, iv \in RandomIVs : RequestEncrypt(d, iv)
RequestDecryptStep == \E value \in DOMAIN Decrypted : RequestDecrypt(value)

-----------------------------------------------------------------------------
(* Concurrent signups: a request runs signup from one await to the next,    *)
(* and the requests interleave at the awaits.                               *)

NumRequests == 2
Requests == 1..NumRequests

Idle == [pc |-> "idle", inputs |-> [email |-> "", password |-> <<>>, phone |-> Undefined],
         created |-> FALSE, resp |-> NoResp]

SignupsInit == requests = [r \in Requests |-> Idle]

\* await findOne(UserModel, {email}); throwError("email already exist", 409)
SignupFindOne(r, inputs) ==
    /\ requests[r].pc = "idle"
    /\ requests' = [requests EXCEPT ![r] =
          IF First(Select(store, inputs.email)) # <<>>
          THEN [pc |-> "done", inputs |-> inputs, created |-> FALSE,
                resp |-> errorResponse(409, "email already exist")]
          ELSE [pc |-> "hashPassword", inputs |-> inputs, created |-> FALSE, resp |-> NoResp]]
    /\ UNCHANGED <<cipherVars, appVars, hashVars, process, session>>

\* await hashPassword(inputs.password); inputs.password = hashedPassword
SignupHashPassword(r, salt) ==
    /\ requests[r].pc = "hashPassword"
    /\ requests' = [requests EXCEPT ![r].pc = "create",
                                    ![r].inputs.password = hashPassword(@, salt)]
    /\ UNCHANGED <<cipherVars, appVars, hashVars, process, session>>

\* what create did for request r: the duplicate key error of the unique
\* index on email has no statusCode, the error handler answers 500
SignupCreated(r, done) ==
    IF done.error # ""
    THEN /\ requests' = [requests EXCEPT ![r].pc = "done",
                                         ![r].resp = errorResponse(500, done.error)]
         /\ UNCHANGED <<store, plainOf>>
    ELSE /\ requests' = [requests EXCEPT ![r].pc = "done", ![r].created = TRUE,
                                         ![r].resp = Respond(201, "user created successfully",
                                                             toJSONAll(WithIds(done.docs, {done.made[1].id})))]
         /\ store' = done.docs
         /\ plainOf' = [plainOf EXCEPT ![done.made[1].id] = done.made[1].phone]

\* await create(UserModel, inputs), then the response
SignupCreate(r, iv) ==
    /\ requests[r].pc = "create"
    /\ SignupCreated(r, Insert(store, <<>>, <<requests[r].inputs>>, <<iv>>))
    /\ UNCHANGED <<ret, resp, cipherLog>>
    /\ UNCHANGED <<cipherVars, hashVars, process, session>>

SignupFindOneStep == \E r \in Requests, inputs \in UserInputs : SignupFindOne(r, inputs)
SignupHashPasswordStep == \E r \in Requests, salt \in RandomSalts : SignupHashPassword(r, salt)
SignupCreateStep == \E r \in Requests, iv \in RandomIVs : SignupCreate(r, iv)

-----------------------------------------------------------------------------
(* Signups and logins one after the other, with the history of who signed   *)
(* up with which password.                                                  *)

NoAttempt == [kind |-> "", email |-> "", password |-> <<>>]

SessionInit == session = [registered |-> [e \in Emails |-> Undefined], attempt |-> NoAttempt]

Attempt(kind, inputs) == [kind |-> kind, email |-> inputs.email, password |-> inputs.password]

\* POST /user/signup; a 201 registers the email with the password
AuthSignup(inputs, salt, iv) ==
    /\ signup(inputs, salt, iv)
    /\ session' = [registered |-> IF resp'.status = 201
                                  THEN [session.registered EXCEPT ![inputs.email] = inputs.password]
                                  ELSE session.registered,
                   attempt |-> Attempt("signup", inputs)]
    /\ UNCHANGED <<hashVars, process, requests>>

\* POST /user/login
AuthLogin(inputs) ==
    /\ login(inputs)
    /\ session' = [session EXCEPT !.attempt = Attempt("login", inputs)]
    /\ UNCHANGED <<hashVars, process, requests>>

AuthSignupStep ==
    \E inputs \in [email : Emails, password : HashPasswords, phone : PhoneInputs],
       salt \in RandomSalts, iv \in RandomIVs : AuthSignup(inputs, salt, iv)
AuthLoginStep == \E inputs \in [email : Emails, password : HashPasswords] : AuthLogin(inputs)

-----------------------------------------------------------------------------
(* The specifications *)

AppInit ==
    /\ store = <<>>
    /\ ret = NoRet
    /\ resp = NoResp
    /\ cipherLog = {}
    /\ plainOf = [id \in Ids |-> Undefined]

Init == CipherInit /\ AppInit /\ HashInit /\ BootInit /\ SignupsInit /\ SessionInit

\* data handed to the repository directly: the password already hashed
RepoInputs == [email : Emails, phone : PhoneInputs,
               password : {hashPassword(<<112, 119>>, [i \in 1..22 |-> B64Char((7 + i * 3) % 64)])}]
WrittenPhones == PhoneInputs \ {Undefined}

FindOneStep == \E q \in Queries : findOne(q) /\ UNCHANGED auxVars
FindByIdStep == \E id \in Ids : findById(id) /\ UNCHANGED auxVars
FindAllStep == \E q \in Queries, w \in {<<0, 0>>, <<1, 1>>} : findAll(q, w[1], w[2]) /\ UNCHANGED auxVars
PaginateStep == \E q \in Queries, page \in 1..2 : paginate(q, page, 1) /\ UNCHANGED auxVars
CreateStep == \E d \in RepoInputs, iv \in RandomIVs : create(d, iv) /\ UNCHANGED auxVars
CreateManyStep == \E d1 \in RepoInputs, d2 \in RepoInputs, iv1 \in RandomIVs, iv2 \in RandomIVs : createMany(<<d1, d2>>, <<iv1, iv2>>) /\ UNCHANGED auxVars
UpdateByIdStep == \E id \in Ids, v \in WrittenPhones, iv \in RandomIVs : updateById(id, v, iv) /\ UNCHANGED auxVars
UpdateOneStep == \E q \in Queries, v \in WrittenPhones, iv \in RandomIVs : updateOne(q, v, iv) /\ UNCHANGED auxVars
UpdateManyStep == \E q \in Queries, v \in WrittenPhones, iv \in RandomIVs : updateMany(q, v, iv) /\ UNCHANGED auxVars
DeleteByIdStep == \E id \in Ids : deleteById(id) /\ UNCHANGED auxVars
DeleteOneStep == \E q \in Queries : deleteOne(q) /\ UNCHANGED auxVars
DeleteManyStep == \E q \in Queries : deleteMany(q) /\ UNCHANGED auxVars
SignupStep == \E inputs \in UserInputs, salt \in RandomSalts, iv \in RandomIVs : signup(inputs, salt, iv) /\ UNCHANGED auxVars
LoginStep == \E inputs \in LoginInputs : login(inputs) /\ UNCHANGED auxVars

Next ==
    \/ FindOneStep \/ FindByIdStep \/ FindAllStep \/ PaginateStep
    \/ CreateStep \/ CreateManyStep
    \/ UpdateByIdStep \/ UpdateOneStep \/ UpdateManyStep
    \/ DeleteByIdStep \/ DeleteOneStep \/ DeleteManyStep
    \/ SignupStep \/ LoginStep

Spec == Init /\ [][Next]_vars

CipherNext ==
    \/ EncryptStep \/ Decrypt
    \/ DecryptFlippedStep \/ DecryptRecasedStep \/ DecryptReplacedStep
    \/ DecryptAppendedStep \/ DecryptCutStep

SpecCipher == Init /\ [][CipherNext]_vars

HashNext == HashStep \/ CompareStep

SpecHash == Init /\ [][HashNext]_vars

BootNext == ImportConfigStep \/ bootstrap \/ RequestEncryptStep \/ RequestDecryptStep

SpecBoot == Init /\ [][BootNext]_vars

SignupsNext == SignupFindOneStep \/ SignupHashPasswordStep \/ SignupCreateStep

SpecSignups == Init /\ [][SignupsNext]_vars

AuthNext == AuthSignupStep \/ AuthLoginStep

SpecAuth == Init /\ [][AuthNext]_vars

-----------------------------------------------------------------------------
(* Properties of encryptData and decryptData, under SpecCipher *)

IsHex(s) == \A i \in 1..Len(s) : HexVal(s[i]) >= 0
IsLowerHex(s) == \A i \in 1..Len(s) : s[i] \in 48..57 \/ s[i] \in 97..102
Colons(s) == {i \in 1..Len(s) : s[i] = Colon}

\* the error decipher.final raises when the tag does not verify
AuthenticationFailure == "unable to authenticate data"

\* the errors decryptData raises before it comes to authenticate
MalformedCiphertext ==
    {"TypeError", "ERR_INVALID_ARG_TYPE", "ERR_INVALID_ARG_VALUE",
     "ERR_CRYPTO_INVALID_IV", "ERR_CRYPTO_INVALID_AUTH_TAG"}

\* C1: for every plaintext x that UTF-8 can encode (no lone surrogate), the
\* empty string and multi-byte text included, decryptData of what
\* encryptData returned for x returns exactly x
RoundTrip ==
    tamper.kind = "intact" /\ WellFormed(data) => result = Ok(data)

\* a round trip of text whose UTF-8 form is longer than the string
RoundTripWitness ==
    /\ tamper.kind = "intact"
    /\ WellFormed(data)
    /\ Len(Utf8Encode(data)) > Len(data)
    /\ result = Ok(data)

\* the position pos of an encoded value lies in its TAG or CIPHERTEXT segment
InTagOrCiphertext(s, pos) == pos > Len(Split(s)[1]) + 1 /\ s[pos] # Colon

\* C2: when one hex digit of the TAG or CIPHERTEXT segment of an encoded
\* value is replaced by a hex digit of another value, decryptData fails with
\* the authentication error and returns no text
TamperDetection ==
    tamper.kind = "flip" /\ InTagOrCiphertext(encoded, tamper.pos)
        => ~result.ok /\ result.error = AuthenticationFailure /\ result.value = <<>>

\* a digit of the CIPHERTEXT segment was replaced and decryptData has failed
TamperDetectionWitness ==
    /\ tamper.kind = "flip"
    /\ tamper.pos > Len(Split(encoded)[1]) + Len(Split(encoded)[2]) + 2
    /\ input # encoded
    /\ ~result.ok

\* the input does not split into exactly three segments, or a segment of it
\* has a character that is no hex digit
Malformed(s) ==
    \/ Len(Split(s)) # 3
    \/ \E k \in 1..Len(Split(s)) : ~IsHex(Split(s)[k])

\* C3: decryptData fails with a malformed-ciphertext error for every input
\* that has not exactly three segments or has a segment that is not hex; it
\* never decrypts such an input
MalformedRejected ==
    result # NoResult /\ Malformed(input)
        => ~result.ok /\ result.error \in MalformedCiphertext

\* C5: every string encryptData returns has exactly two ':' and the segments
\* IV (24 hex digits), TAG (32 hex digits) and CIPHERTEXT (two hex digits for
\* each byte of the UTF-8 plaintext) in this order: the third decrypts under
\* the first to the plaintext and the second is its tag
EncodedFormat ==
    encoded # <<>> =>
        /\ Cardinality(Colons(encoded)) = 2
        /\ Len(Split(encoded)) = 3
        /\ \A k \in 1..3 : IsLowerHex(Split(encoded)[k])
        /\ Len(Split(encoded)[1]) = 24
        /\ Len(Split(encoded)[2]) = 32
        /\ Len(Split(encoded)[3]) = 2 * Len(Utf8Encode(data))
        /\ CtrXor(CipherCtx(HexDecode(Split(encoded)[1])), HexDecode(Split(encoded)[3]))
               = Utf8Encode(data)
        /\ AuthTag(CipherCtx(HexDecode(Split(encoded)[1])), HexDecode(Split(encoded)[3]))
               = HexDecode(Split(encoded)[2])

\* encryptData has returned the encoding of multi-byte text
EncodedFormatWitness ==
    /\ encoded # <<>>
    /\ Len(Utf8Encode(data)) > Len(data)
    /\ Len(Split(encoded)[3]) = 2 * Len(Utf8Encode(data))

-----------------------------------------------------------------------------
(* Properties of the phone field, the repository, signup and login, under Spec *)

IsSuccess(r) == r.status \in {200, 201}

\* C6: a user written without a phone, or with an empty one, is stored with
\* that value unchanged, and while no stored user has a phone no request and
\* no read of a returned document calls decryptData or fails
PhonelessTolerated ==
    /\ \A i \in 1..Len(store) :
           Falsy(plainOf[store[i].id]) => store[i].phone = plainOf[store[i].id]
    /\ (\A i \in 1..Len(store) : Falsy(store[i].phone)) =>
           /\ "decryptData" \notin cipherLog
           /\ resp.status # 500
           /\ \A i \in 1..Len(ret.docs) : Falsy(ret.docs[i].phone) => DocPhone(ret.docs[i]).ok

\* the operations of the repository that return user documents
ReturningOps ==
    {"findOne", "findById", "findAll", "paginate", "create", "createMany",
     "updateById", "updateOne", "deleteById", "deleteOne"}

\* C7: the phone a caller reads from a document a repository operation
\* returned, and the phone in the data of a signup or login response, is the
\* plaintext the user was written with and not the stored IV:TAG:CIPHERTEXT,
\* whenever the stored phone is a ciphertext
PlaintextReturned ==
    /\ ret.op \in ReturningOps =>
           \A i \in 1..Len(ret.docs) :
               ~Falsy(ret.docs[i].phone) =>
                   /\ DocPhone(ret.docs[i]) = Ok(plainOf[ret.docs[i].id])
                   /\ DocPhone(ret.docs[i]).value # ret.docs[i].phone
    /\ IsSuccess(resp) =>
           \A i \in 1..Len(resp.data) :
               ~Falsy(plainOf[resp.data[i].id]) =>
                   /\ resp.data[i].phone = plainOf[resp.data[i].id]
                   /\ \A j \in 1..Len(store) : resp.data[i].phone # store[j].phone

\* an update returned a document whose stored phone is a ciphertext
PlaintextReturnedWitness ==
    /\ ret.op = "updateOne"
    /\ ret.docs # <<>>
    /\ ~Falsy(ret.docs[1].phone)
    /\ DocPhone(ret.docs[1]).ok

\* C8: every stored phone that is not empty is what encryptData returns for
\* the plaintext its user was last written with, under one of the IVs: it
\* is not that plaintext, and one decryptData gives the plaintext back
StoredEncrypted ==
    \A i \in 1..Len(store) :
        ~Falsy(store[i].phone) =>
            /\ \E iv \in RandomIVs : store[i].phone = encryptData(plainOf[store[i].id], iv).value
            /\ store[i].phone # plainOf[store[i].id]
            /\ decryptData(store[i].phone) = Ok(plainOf[store[i].id])

\* an update has replaced the phone of a stored user by a non-empty one
StoredEncryptedWitness ==
    /\ ret.op \in {"updateById", "updateOne", "updateMany"}
    /\ "encryptData" \in cipherLog
    /\ \E i \in 1..Len(store) : ~Falsy(store[i].phone)

\* C9: the data of a successful signup or login response holds no password
\* hash and no stored phone ciphertext
NoCredentialInResponse ==
    IsSuccess(resp) =>
        \A i \in 1..Len(resp.data) :
            /\ resp.data[i].password = Undefined
            /\ \A j \in 1..Len(store) :
                   ~Falsy(store[j].phone) => resp.data[i].phone # store[j].phone

-----------------------------------------------------------------------------
(* Properties of hashPassword and comparePassword, under SpecHash *)

\* C11: for every two different passwords p and q,
\* comparePassword(q, hashPassword(p)) returns false and raises no error
WrongPasswordRejected ==
    comparing.kind = "intact" /\ comparing.password # hashing.password
        => comparing.verdict.ok /\ comparing.verdict.value = FALSE

\* h has the structure of a bcrypt hash: "$2b$", two digits of cost, "$" and
\* 53 characters of bcrypt's base-64 alphabet
IsBcryptHash(h) ==
    /\ Len(h) = 60
    /\ SubSeq(h, 1, 4) = <<36, 50, 98, 36>>
    /\ h[5] \in 48..57 /\ h[6] \in 48..57 /\ h[7] = 36
    /\ \A i \in 8..60 : h[i] \in {46, 47} \cup (48..57) \cup (65..90) \cup (97..122)

\* C12: given a stored hash that has not the structure of a hash,
\* comparePassword reports an error; it does not return false
MalformedHashReported ==
    comparing.kind # "none" /\ ~IsBcryptHash(comparing.hash)
        => ~comparing.verdict.ok

\* the configured cost is absent, not a number, zero or negative
InvalidCost(cost) == Number(cost).nan \/ Number(cost).n <= 0

\* C13: when the configured SALT_ROUND is absent, non-numeric, zero or
\* negative, hashPassword fails with an error and produces no hash
InvalidCostRejected ==
    hashing # NoHashing /\ InvalidCost(hashing.cost) => ~hashing.hashed.ok

-----------------------------------------------------------------------------
(* Property of the start-up, under SpecBoot *)

\* the key is present and is the hex of exactly 32 bytes
ValidKey(key) == key # Undefined /\ Len(key) = 64 /\ IsHex(key)

\* C14: with a key that is absent or is not the hex of 32 bytes the process
\* does not come to listen, and no call of encryptData or decryptData is
\* reached
InvalidKeyStopsStartup ==
    process.phase # "init" /\ ~ValidKey(process.securityKey)
        => process.phase # "listening" /\ process.call = NoCall

-----------------------------------------------------------------------------
(* Property of concurrent signups, under SpecSignups *)

\* C15: under every interleaving of signups the store holds at most one
\* user per email, and every signup that created no user, its email being
\* registered already, has failed with 409 'email already exist'
SignupConflict ==
    /\ \A i, j \in 1..Len(store) : store[i].email = store[j].email => i = j
    /\ \A r \in Requests :
           requests[r].pc = "done" /\ ~requests[r].created
               => /\ requests[r].resp.status = 409
                  /\ requests[r].resp.message = "email already exist"

-----------------------------------------------------------------------------
(* Property of signup followed by logins, under SpecAuth *)

\* C16: after a signup with email e and password p that answered 201 the
\* stored password is a hash of p and not p, and every later login with e
\* and p answers 200 with a user that has no password, every login with e
\* and another password answers 401, every login with an email no user is
\* stored for answers 404, and 401 and 404 carry the same message
SignupThenLogin ==
    /\ \A i \in 1..Len(store) :
           session.registered[store[i].email] # Undefined =>
               /\ store[i].password # session.registered[store[i].email]
               /\ \E salt \in RandomSalts :
                      store[i].password = hashPassword(session.registered[store[i].email], salt)
    /\ session.attempt.kind = "login" =>
           IF session.registered[session.attempt.email] # Undefined
           THEN IF session.attempt.password = session.registered[session.attempt.email]
                THEN /\ resp.status = 200
                     /\ Len(resp.data) = 1
                     /\ resp.data[1].email = session.attempt.email
                     /\ resp.data[1].password = Undefined
                ELSE /\ resp.status = 401
                     /\ resp.message = "Invalid email or password"
           ELSE (\A i \in 1..Len(store) : store[i].email # session.attempt.email) =>
                     /\ resp.status = 404
                     /\ resp.message = "Invalid email or password"

====
